---- MODULE Spec2Model ----
(***************************************************************************)
(* The store application of ecommerce-backend: user registration and       *)
(* profiles, categories, product and image CRUD, sale recording, the mail  *)
(* side effects and the analytics endpoints with their response cache, as  *)
(* a state machine over the database tables.  Request handlers run on      *)
(* concurrent workers that share the database; a handler that reads a row  *)
(* and later writes it is one action per database statement, so that two   *)
(* handlers interleave the way two web workers do.  Django runs each       *)
(* statement in autocommit mode (the views open no transaction) and        *)
(* Model.save() writes every column of the in-memory instance.             *)
(***************************************************************************)
EXTENDS Integers, Sequences, FiniteSets, TLC

(* ------------------------------ bounds --------------------------------- *)
NumWorkers == 2
MaxQty == 2
MaxRequests == 3
MaxCategories == 3
MaxDays == 2
MaxUploads == 2

(* ------------------------- program constants --------------------------- *)
LowStockThreshold == 10
DefaultDays == 30

\* A string column that is NULL, and a string field the request leaves out.
Null == "null"
Absent == "absent"

\* A numeric or boolean request field: <<>> when the request leaves it out.
None == <<>>
Some(v) == <<v>>
Opt(S) == {None} \cup {Some(v) : v \in S}

Workers == 1..NumWorkers
Usernames == {"ann", "bob"}
Passwords == {"pw1", "pw2"}
ROLE_CHOICES == {"SELLER", "CONSUMER", "ADMIN"}
RoleInputs == ROLE_CHOICES \cup {Absent, "OWNER"}
StoreNameInputs == {Absent, "", "Shop"}
Prices == {1, 2}
PriceInputs == Prices \cup {0}
StockChoices == {1, LowStockThreshold + 1}
StockInputs == StockChoices \cup {-1}
QuantityInputs == Opt((0..MaxQty) \cup {-1})
MailErrors == {"SMTPException"}
MailOutcomes == {"ok"} \cup MailErrors

VARIABLES users, products, sales, emailLog, mailDelivered, mailFailures,
          workers, last, acceptedQty, served, categories, cache, now, walk,
          images

vars == <<users, products, sales, emailLog, mailDelivered, mailFailures,
          workers, last, acceptedQty, served, categories, cache, now, walk,
          images>>

\* The category table, the response cache, the clock, the position of a
\* get_full_path call and the image table: what the user, product and sale
\* handlers leave alone.
shelfVars == <<categories, cache, now, walk, images>>

(* ------------------------------ helpers -------------------------------- *)
\* An empty set of errors is the response of a request that got through.
Response(status, errors) == [status |-> status, errors |-> errors]

\* The row of no product: no user has id 0.
NoProduct ==
  [seller |-> 0, price |-> 0, stock_quantity |-> 0, sales_count |-> 0,
   is_active |-> FALSE]

IdleWorker ==
  [op |-> "idle", pc |-> "idle", actor |-> 0, pid |-> 0, product |-> NoProduct,
   quantity |-> 0]

Handling(op, pc, actor, pid, product, quantity) ==
  [op |-> op, pc |-> pc, actor |-> actor, pid |-> pid, product |-> product,
   quantity |-> quantity]

\* What a step answers: the operation, what the claims read of its request,
\* and the response.  A step that answers nothing leaves NoReply.
Reply(op, actor, pid, req, resp) ==
  last' = [op |-> op, req |-> req, resp |-> resp]

NoRequest == [none |-> TRUE]

NoReply == last' = [op |-> "none", req |-> NoRequest, resp |-> Response(0, {})]

\* A worker takes the next request; the run serves MaxRequests of them.
Accept == served < MaxRequests /\ served' = served + 1

\* No get_full_path call is running.
NoWalk == [pc |-> "idle", category |-> 0, path |-> <<>>, parent |-> 0]

\* 0 is the anonymous user.
Actors == 0..Len(users)

\* The ids a request can name: every row, and one id that names none.
ProductIds == 1..(Len(products) + 1)

(* ------------------------------- models -------------------------------- *)
User(username, role) ==
  [username |-> username, role |-> role, store_name |-> Null, is_staff |-> FALSE]

\* A role check that lets every user pass.
is_seller_anyone(u) == TRUE

is_seller(u) == u.role = "SELLER"

\* PositiveIntegerField: the column carries CHECK (value >= 0), and the
\* serializer field built from it carries min_value=0.
PositiveIntegerField_unchecked(v) == TRUE

PositiveIntegerField(v) == v >= 0

Product(seller, price, stock_quantity, is_active) ==
  [seller |-> seller, price |-> price, stock_quantity |-> stock_quantity,
   sales_count |-> 0, is_active |-> is_active]

\* The buyer column (the requesting user) is left out.
\* sale_date is auto_now_add: the clock at the insert.
ProductSale(product, seller, quantity, price_at_sale) ==
  [product |-> product, seller |-> seller,
   quantity |-> quantity, price_at_sale |-> price_at_sale, sale_date |-> now]

\* The recipient columns are left out.
EmailLog(recipient_user, email_type, status, error_message) ==
  [email_type |-> email_type, status |-> status, error_message |-> error_message]

(* ---------------------------- mail transport --------------------------- *)
\* The log row of a service that records every attempt as delivered.
LogOf_alwaysSent(recipient_user, email_type, outcome) ==
  EmailLog(recipient_user, email_type, "SENT", Null)

\* send_mail(fail_silently=False) either delivers or raises; the services
\* log the outcome.
LogOf(recipient_user, email_type, outcome) ==
  IF outcome = "ok"
    THEN EmailLog(recipient_user, email_type, "SENT", Null)
    ELSE EmailLog(recipient_user, email_type, "FAILED", outcome)

SendAndLog(recipient_user, email_type, outcome) ==
  /\ emailLog' = Append(emailLog, LogOf(recipient_user, email_type, outcome))
  /\ mailDelivered' = IF outcome = "ok" THEN mailDelivered + 1 ELSE mailDelivered
  /\ mailFailures' = IF outcome = "ok" THEN mailFailures
                                       ELSE Append(mailFailures, outcome)

NoMail == UNCHANGED <<emailLog, mailDelivered, mailFailures>>

send_welcome_email(uid, outcome) == SendAndLog(uid, "WELCOME", outcome)

\* send_low_stock_alerts: nothing is sent when the seller has no active
\* product at or under the threshold in the database.
send_low_stock_alerts(seller, db) ==
  IF \E p \in 1..Len(db) :
       /\ db[p] # NoProduct
       /\ db[p].seller = seller
       /\ db[p].stock_quantity <= LowStockThreshold
       /\ db[p].is_active
    THEN \E outcome \in MailOutcomes : SendAndLog(seller, "LOW_STOCK_ALERT", outcome)
    ELSE NoMail

check_and_notify_low_stock(product, db) ==
  IF product.stock_quantity <= LowStockThreshold /\ product.is_active
    THEN send_low_stock_alerts(product.seller, db)
    ELSE NoMail

(* ----------------------------- registration ---------------------------- *)
\* UserRegistrationSerializer: field validation first, validate() only when
\* every field passed.
RegistrationErrors(username, password, password2, role) ==
  LET fieldErrors ==
        (IF \E i \in 1..Len(users) : users[i].username = username
           THEN {"username"} ELSE {})
        \cup (IF role # Absent /\ role \notin ROLE_CHOICES THEN {"role"} ELSE {})
  IN  IF fieldErrors # {} THEN fieldErrors
      ELSE IF password # password2 THEN {"password"}
      ELSE {}

\* UserViewSet.create: the role saved is CONSUMER unless the request asks for
\* SELLER, and a SELLER request must name a store.
StoreNameMissing(role, store_name) ==
  role = "SELLER" /\ store_name \in {Absent, ""}

\* The role of a view that stops at validated_data['role'] = 'CONSUMER'.
RegisteredRole_forcedConsumer(role) == "CONSUMER"

RegisteredRole(role) == IF role = "SELLER" THEN "SELLER" ELSE "CONSUMER"

Register ==
  /\ UNCHANGED shelfVars
  /\ \E w \in Workers : workers[w].pc = "idle"
  /\ Accept
  /\ \E username \in Usernames, password \in Passwords, password2 \in Passwords,
        role \in RoleInputs, store_name \in StoreNameInputs :
       LET errors == RegistrationErrors(username, password, password2, role)
           req == [seller |-> role = "SELLER",
                   store_name |-> store_name \notin {Absent, ""},
                   valid |-> errors = {}]
       IN  IF errors # {}
             THEN /\ Reply("register", 0, 0, req, Response(400, errors))
                  /\ UNCHANGED users
                  /\ NoMail
           ELSE IF StoreNameMissing(role, store_name)
             THEN /\ Reply("register", 0, 0, req, Response(400, {"store_name"}))
                  /\ UNCHANGED users
                  /\ NoMail
           ELSE /\ users' = Append(users, User(username, RegisteredRole(role)))
                /\ \E outcome \in MailOutcomes :
                     send_welcome_email(Len(users) + 1, outcome)
                /\ Reply("register", Len(users) + 1, 0, req, Response(201, {}))
  /\ UNCHANGED <<products, sales, workers, acceptedQty>>

(* ------------------------------- profile ------------------------------- *)
\* A profile serializer that takes role from the request like any other field.
ProfileUpdated_writableRole(user, role, store_name) ==
  [user EXCEPT !.role = IF role \in ROLE_CHOICES THEN role ELSE @,
               !.store_name = IF store_name = Absent THEN @ ELSE store_name]

\* UserProfileSerializer: role is read_only and never among the validated
\* fields; store_name is writable and may be blank.
ProfileUpdated(user, role, store_name) ==
  [user EXCEPT !.store_name = IF store_name = Absent THEN @ ELSE store_name]

\* PUT/PATCH on users/me/ (target = actor) and on users/<id>/: both go through
\* UserProfileSerializer with the IsAuthenticated permission.
UpdateProfile ==
  /\ UNCHANGED shelfVars
  /\ \E w \in Workers : workers[w].pc = "idle"
  /\ Accept
  /\ \E actor \in Actors, target \in 1..(Len(users) + 1),
        role \in RoleInputs, store_name \in StoreNameInputs :
       LET req == [target |-> target, role |-> role, store_name |-> store_name]
           done(resp) == Reply("update_profile", actor, 0, req, resp)
       IN  IF actor = 0
             THEN done(Response(401, {})) /\ UNCHANGED users
           ELSE IF target > Len(users)
             THEN done(Response(404, {})) /\ UNCHANGED users
           ELSE /\ users' = [users EXCEPT ![target] =
                               ProfileUpdated(users[target], role, store_name)]
                /\ done(Response(200, {}))
  /\ UNCHANGED <<products, sales, workers, acceptedQty>>
  /\ NoMail

(* ------------------------------- products ------------------------------ *)
\* ProductViewSet.get_queryset + get_object: a non-staff user finds only
\* active products.
Visible(actor, pid, db) ==
  /\ pid \in 1..Len(db)
  /\ db[pid] # NoProduct
  /\ (actor = 0 \/ ~users[actor].is_staff) => db[pid].is_active

\* ProductListSerializer field validation of the writable fields.
ProductErrors(price, stock_quantity) ==
  (IF price # None /\ price[1] < 1 THEN {"price"} ELSE {})
  \cup (IF stock_quantity # None /\ ~PositiveIntegerField(stock_quantity[1])
          THEN {"stock_quantity"} ELSE {})

\* One create request.  seller is the seller value of the request: the
\* serializer declares the field read_only and drops it, and perform_create
\* saves with seller=request.user.
CreateProductBy(actor, seller, price, stock_quantity, is_active) ==
  /\ UNCHANGED shelfVars
  /\ \E w \in Workers : workers[w].pc = "idle"
  /\ Accept
  /\ LET errors == ProductErrors(Some(price), Some(stock_quantity))
         req == [actor |-> actor, seller |-> seller]
         done(resp) == Reply("create_product", actor, 0, req, resp)
     IN  IF actor = 0
           THEN done(Response(401, {})) /\ UNCHANGED <<products, acceptedQty>>
         ELSE IF errors # {}
           THEN done(Response(400, errors)) /\ UNCHANGED <<products, acceptedQty>>
         ELSE IF ~is_seller(users[actor])
           THEN done(Response(403, {})) /\ UNCHANGED <<products, acceptedQty>>
         ELSE /\ products' = Append(products,
                                Product(actor, price, stock_quantity, is_active))
              /\ acceptedQty' = Append(acceptedQty, 0)
              /\ done(Response(201, {}))
  /\ UNCHANGED <<users, sales, workers>>
  /\ NoMail

\* A create request that names no seller.
CreateProduct ==
  \E actor \in Actors, price \in PriceInputs, stock_quantity \in StockInputs,
     is_active \in BOOLEAN :
    CreateProductBy(actor, None, price, stock_quantity, is_active)

\* A create request that names a seller.
CreateProductNaming ==
  \E actor \in Actors, seller \in 1..Len(users), price \in PriceInputs,
     stock_quantity \in StockInputs, is_active \in BOOLEAN :
    CreateProductBy(actor, Some(seller), price, stock_quantity, is_active)

(* ---------------------------- response cache --------------------------- *)
\* The body of a response that carries no data.
NoBody == [none |-> TRUE]

Page(status, body) == [status |-> status, errors |-> {}, body |-> body]

\* cache_page builds its key from the URL of the GET request: the endpoint
\* and the id in the path.  The viewer is not part of it.
CacheKey(endpoint, id) == <<endpoint, id>>

Cached(key) == {entry \in cache : entry.key = key}

\* @method_decorator(cache_page(...)) around a view method: a stored response
\* is returned without running the method; otherwise the method runs and its
\* response is stored when its status is 200.
cache_page(key, op, req, fresh) ==
  IF Cached(key) # {}
    THEN /\ \E entry \in Cached(key) : Reply(op, 0, 0, req, Page(200, entry.body))
         /\ UNCHANGED cache
    ELSE /\ Reply(op, 0, 0, req, fresh)
         /\ cache' = IF fresh.status = 200
                       THEN cache \cup {[key |-> key, body |-> fresh.body]}
                       ELSE cache

\* The timeout of a stored response runs out.
CacheTimeout ==
  /\ \E entry \in cache : cache' = cache \ {entry}
  /\ NoReply
  /\ UNCHANGED <<users, products, sales, workers, acceptedQty, served,
                 categories, now, walk, images>>
  /\ NoMail

(* ------------------------------ aggregates ----------------------------- *)
\* Sum('field') over a queryset: NULL (None) over no rows.
RECURSIVE Total(_)
Total(values) ==
  IF values = <<>> THEN 0 ELSE Head(values) + Total(Tail(values))

Sum(values) == IF values = <<>> THEN None ELSE Some(Total(values))

\* `x or 0`
OrZero(x) == IF x = None \/ x = Some(0) THEN 0 ELSE x[1]

Column(rows, field) == [i \in 1..Len(rows) |-> rows[i][field]]

\* Avg('field'): NULL over no rows, else the quotient total / count, kept as
\* the pair of the two.
Avg(values) ==
  IF values = <<>> THEN None ELSE Some(<<Total(values), Len(values)>>)

\* Count('id')
Count(rows) == Len(rows)

(* ------------------------------- browsing ------------------------------ *)
IsStaff(actor) == actor # 0 /\ users[actor].is_staff

\* What a serialized product shows of the row.
Listed(pid, db) == [id |-> pid, is_active |-> db[pid].is_active]

\* ProductViewSet.list: the queryset of get_queryset.
ListProducts ==
  /\ \E w \in Workers : workers[w].pc = "idle"
  /\ Accept
  /\ \E actor \in Actors :
       cache_page(CacheKey("products", 0), "list_products", [actor |-> actor],
         Page(200, [products |-> {Listed(pid, products) :
                      pid \in {p \in 1..Len(products) : Visible(actor, p, products)}}]))
  /\ UNCHANGED <<users, products, sales, workers, acceptedQty, categories, now,
                 walk, images>>
  /\ NoMail

\* ProductViewSet.retrieve: get_object over the queryset of get_queryset.
RetrieveProduct ==
  /\ \E w \in Workers : workers[w].pc = "idle"
  /\ Accept
  /\ \E actor \in Actors, pid \in ProductIds :
       cache_page(CacheKey("products", pid), "retrieve_product", [actor |-> actor],
         IF Visible(actor, pid, products)
           THEN Page(200, [products |-> {Listed(pid, products)}])
           ELSE Page(404, NoBody))
  /\ UNCHANGED <<users, products, sales, workers, acceptedQty, categories, now,
                 walk, images>>
  /\ NoMail

\* AnalyticsViewSet.admin_dashboard: IsAuthenticated is checked before the
\* cached method is entered, is_staff inside it.
platform_data ==
  [total_users |-> Len(users),
   total_sellers |-> Cardinality({u \in 1..Len(users) : users[u].role = "SELLER"}),
   total_products |-> Cardinality({p \in 1..Len(products) : products[p] # NoProduct}),
   total_sales |-> Len(sales),
   total_revenue |-> OrZero(Sum(Column(sales, "price_at_sale")))]

admin_dashboard ==
  /\ \E w \in Workers : workers[w].pc = "idle"
  /\ Accept
  /\ \E actor \in Actors :
       IF actor = 0
         THEN /\ Reply("admin_dashboard", 0, 0, [actor |-> actor], Page(401, NoBody))
              /\ UNCHANGED cache
         ELSE cache_page(CacheKey("admin_dashboard", 0), "admin_dashboard",
                         [actor |-> actor],
                         IF ~users[actor].is_staff THEN Page(403, NoBody)
                                                   ELSE Page(200, platform_data))
  /\ UNCHANGED <<users, products, sales, workers, acceptedQty, categories, now,
                 walk, images>>
  /\ NoMail

(* ------------------------------ categories ----------------------------- *)
\* The slug derived from a name: lower-cased and dashified.
Slugify(name) ==
  CASE name = "Books" -> "books"
    [] name = "Fiction" -> "fiction"
    [] name = "Poetry" -> "poetry"
    [] name = "Toys" -> "toys"
    [] OTHER -> "games"

CatalogueNames == <<"Books", "Fiction", "Poetry", "Toys", "Games">>

CategoryNameInputs == {"Books", "Toys"}

\* parent_category = 0 is NULL.
Category(name, slug, parent_category, is_active) ==
  [name |-> name, slug |-> slug, parent_category |-> parent_category,
   is_active |-> is_active]

CategoryIds == 1..Len(categories)

\* CategoryViewSet.get_queryset + get_object: a non-staff user finds only
\* active categories.
CategoryVisible(actor, cid) ==
  /\ cid \in CategoryIds
  /\ ~IsStaff(actor) => categories[cid].is_active

\* CategorySerializer: the parent must exist, and validate_parent_category
\* refuses the category itself (never the case on create, where cid = 0).
ParentErrors(cid, parent_category) ==
  IF parent_category = None \/ parent_category = Some(0) THEN {}
  ELSE IF parent_category[1] \notin CategoryIds THEN {"parent_category"}
  ELSE IF cid # 0 /\ parent_category[1] = cid THEN {"parent_category"}
  ELSE {}

\* The unique validator of name.
NameErrors(cid, name) ==
  IF \E c \in CategoryIds : c # cid /\ categories[c].name = name
    THEN {"name"} ELSE {}

\* The unique index on slug.
SlugTaken(slug) == \E c \in CategoryIds : categories[c].slug = slug

\* CategoryViewSet.create: slug is read_only in CategorySerializer and the
\* model computes none, so the row is inserted with the column's empty
\* default; the unique index refuses a second one (IntegrityError).
CreateCategory ==
  /\ \E w \in Workers : workers[w].pc = "idle"
  /\ Accept
  /\ \E actor \in Actors, name \in CategoryNameInputs,
        parent_category \in 0..(Len(categories) + 1) :
       LET errors == NameErrors(0, name) \cup ParentErrors(0, Some(parent_category))
           req == [actor |-> actor, name |-> name]
           done(resp) == Reply("create_category", actor, 0, req, resp)
       IN  IF actor = 0 THEN done(Response(401, {})) /\ UNCHANGED categories
           ELSE IF errors # {}
             THEN done(Response(400, errors)) /\ UNCHANGED categories
           ELSE IF SlugTaken("")
             THEN done(Response(500, {})) /\ UNCHANGED categories
           ELSE /\ categories' = Append(categories,
                                   Category(name, "", parent_category, TRUE))
                /\ done(Response(201, {}))
  /\ UNCHANGED <<users, products, sales, workers, acceptedQty, cache, now, walk, images>>
  /\ NoMail

\* admin.site.register(Category): the add form of the admin site, where a
\* staff user types the slug; the form validates both unique fields.
AdminAddCategory ==
  /\ \E w \in Workers : workers[w].pc = "idle"
  /\ Accept
  /\ \E actor \in Actors, name \in CategoryNameInputs, slug \in {"books", "toys"},
        parent_category \in 0..Len(categories) :
       LET req == [actor |-> actor, name |-> name]
           done(resp) == Reply("admin_add_category", actor, 0, req, resp)
       IN  IF ~IsStaff(actor) THEN done(Response(403, {})) /\ UNCHANGED categories
           ELSE IF NameErrors(0, name) # {} \/ SlugTaken(slug)
             THEN done(Response(400, NameErrors(0, name)
                          \cup (IF SlugTaken(slug) THEN {"slug"} ELSE {})))
                  /\ UNCHANGED categories
           ELSE /\ categories' = Append(categories,
                                   Category(name, slug, parent_category, TRUE))
                /\ done(Response(201, {}))
  /\ UNCHANGED <<users, products, sales, workers, acceptedQty, cache, now, walk, images>>
  /\ NoMail

\* CategoryViewSet update / partial_update: any authenticated user.
UpdateCategory ==
  /\ \E w \in Workers : workers[w].pc = "idle"
  /\ Accept
  /\ \E actor \in Actors, cid \in 1..(Len(categories) + 1),
        parent_category \in Opt(0..(Len(categories) + 1)), is_active \in Opt(BOOLEAN) :
       LET req == [actor |-> actor, category |-> cid]
           done(resp) == Reply("update_category", actor, 0, req, resp)
       IN  IF actor = 0 THEN done(Response(401, {})) /\ UNCHANGED categories
           ELSE IF ~CategoryVisible(actor, cid)
             THEN done(Response(404, {})) /\ UNCHANGED categories
           ELSE IF ParentErrors(cid, parent_category) # {}
             THEN done(Response(400, ParentErrors(cid, parent_category)))
                  /\ UNCHANGED categories
           ELSE /\ categories' = [categories EXCEPT ![cid] =
                     [@ EXCEPT !.parent_category =
                                 IF parent_category = None THEN @ ELSE parent_category[1],
                               !.is_active =
                                 IF is_active = None THEN @ ELSE is_active[1]]]
                /\ done(Response(200, {}))
  /\ UNCHANGED <<users, products, sales, workers, acceptedQty, cache, now, walk, images>>
  /\ NoMail

(* ---------------------------- category tree ---------------------------- *)
\* The columns of a product row that CategoryViewSet.products reads.
CategoryProduct(category, is_active) ==
  [category |-> category, is_active |-> is_active]

\* cat.subcategories.all()
Children(cat) == {c \in CategoryIds : categories[c].parent_category = cat}

\* A traversal that stops at the direct subcategories.
get_all_subcategories_direct(cat, fuel) == Children(cat)

\* get_all_subcategories: the subcategories of cat and, recursively, theirs.
\* fuel is the depth the interpreter lets the recursion reach.
RECURSIVE get_all_subcategories(_, _)
get_all_subcategories(cat, fuel) ==
  IF fuel = 0 THEN {}
  ELSE Children(cat)
       \cup UNION {get_all_subcategories(subcat, fuel - 1) : subcat \in Children(cat)}

\* The recursion does not end when it comes back to a category it is in: the
\* interpreter raises RecursionError.
RECURSIVE RecursionError(_, _)
RecursionError(cat, fuel) ==
  IF fuel = 0 THEN TRUE
  ELSE \E subcat \in Children(cat) : RecursionError(subcat, fuel - 1)

\* CategoryViewSet.products, inside cache_page(60 * 30).
CategoryProducts ==
  /\ \E w \in Workers : workers[w].pc = "idle"
  /\ Accept
  /\ \E actor \in Actors, cid \in 1..(Len(categories) + 1) :
       LET all_categories ==
             {cid} \cup get_all_subcategories(cid, Len(categories))
       IN  cache_page(CacheKey("category_products", cid), "category_products",
             [actor |-> actor, category |-> cid],
             IF ~CategoryVisible(actor, cid) THEN Page(404, NoBody)
             ELSE IF RecursionError(cid, Len(categories)) THEN Page(500, NoBody)
             ELSE Page(200, [products |-> {Listed(pid, products) :
                    pid \in {p \in 1..Len(products) :
                               /\ products[p].category \in all_categories
                               /\ products[p].is_active}}]))
  /\ UNCHANGED <<users, products, sales, workers, acceptedQty, categories, now,
                 walk, images>>
  /\ NoMail

(* ----------------------------- get_full_path --------------------------- *)
\* A loop that appends the parent's name.
Climb_append(w) ==
  [w EXCEPT !.path = Append(@, categories[w.parent].name),
            !.parent = categories[w.parent].parent_category]

\* path.insert(0, parent.name); parent = parent.parent_category
Climb(w) ==
  [w EXCEPT !.path = <<categories[w.parent].name>> \o @,
            !.parent = categories[w.parent].parent_category]

\* path = [self.name]; parent = self.parent_category
FullPathStart ==
  /\ walk.pc = "idle"
  /\ Accept
  /\ \E cid \in CategoryIds :
       walk' = [pc |-> "walking", category |-> cid,
                path |-> <<categories[cid].name>>,
                parent |-> categories[cid].parent_category]
  /\ NoReply
  /\ UNCHANGED <<users, products, sales, workers, acceptedQty, categories, cache,
                 now, images>>
  /\ NoMail

\* while parent: ... / return path.  The loop itself has no bound; the path
\* is followed one step past the size of the table.
FullPathStep ==
  /\ walk.pc = "walking"
  /\ Len(walk.path) <= Len(categories)
  /\ IF walk.parent = 0
       THEN /\ Reply("full_path", 0, 0, [category |-> walk.category],
                     Page(200, [path |-> walk.path]))
            /\ walk' = NoWalk
       ELSE /\ walk' = Climb(walk)
            /\ NoReply
  /\ UNCHANGED <<users, products, sales, workers, acceptedQty, categories, cache,
                 now, served, images>>
  /\ NoMail

(* ------------------------------ sales_report --------------------------- *)
\* The clock, in days.
Tick ==
  /\ now < MaxDays
  /\ now' = now + 1
  /\ NoReply
  /\ UNCHANGED <<users, products, sales, workers, acceptedQty, served,
                 categories, cache, walk, images>>
  /\ NoMail

\* ProductSale.objects.filter(seller=request.user, sale_date__gte=start_date)
\* with start_date = timezone.now() - timedelta(days=days)
Window(seller, days) ==
  SelectSeq(sales, LAMBDA sale : sale.seller = seller /\ sale.sale_date >= now - days)

\* sales.aggregate(...)
report_data(rows) ==
  [total_sales |-> Count(rows),
   total_revenue |-> Sum(Column(rows, "price_at_sale")),
   average_sale |-> Avg(Column(rows, "price_at_sale")),
   total_units |-> Sum(Column(rows, "quantity"))]

\* The rows grouped by date(sale_date).
daily_sales(rows) ==
  {[sale_day |-> day,
    daily_revenue |-> Sum(Column(SelectSeq(rows, LAMBDA sale : sale.sale_date = day),
                                 "price_at_sale")),
    daily_sales |-> Count(SelectSeq(rows, LAMBDA sale : sale.sale_date = day))] :
     day \in {rows[i].sale_date : i \in 1..Len(rows)}}

\* AnalyticsViewSet.sales_report
sales_report ==
  /\ \E w \in Workers : workers[w].pc = "idle"
  /\ Accept
  /\ \E actor \in Actors, days \in Opt(0..MaxDays) :
       LET req == [actor |-> actor,
                   days |-> IF days = None THEN DefaultDays ELSE days[1]]
           done(resp) == Reply("sales_report", actor, 0, req, resp)
       IN  IF actor = 0 THEN done(Page(401, NoBody))
           ELSE IF ~is_seller(users[actor]) THEN done(Page(403, NoBody))
           ELSE done(Page(200, [summary |-> report_data(Window(actor, req.days)),
                                daily_breakdown |->
                                  daily_sales(Window(actor, req.days))]))
  /\ UNCHANGED <<users, products, sales, workers, acceptedQty, categories, cache,
                 now, walk, images>>
  /\ NoMail

(* ------------------------------- analytics ----------------------------- *)
\* The literals of seller_dashboard: the days of recent sales, the stock at
\* or under which a product counts as low, and the length of the ranking.
RecentDays == 7
DashboardLowStock == 10
TopCount == 5

\* A product row with its category column.
CatalogProduct(seller, price, stock_quantity, sales_count, category) ==
  [seller |-> seller, price |-> price, stock_quantity |-> stock_quantity,
   sales_count |-> sales_count, is_active |-> TRUE, category |-> category]

\* ProductSale.objects.filter(seller=...)
SalesOf(seller) == SelectSeq(sales, LAMBDA sale : sale.seller = seller)

\* Product.objects.filter(seller=...)
Owned(seller) ==
  {p \in 1..Len(products) : products[p] # NoProduct /\ products[p].seller = seller}

\* ProductSale.total_amount
total_amount(sale) == sale.quantity * sale.price_at_sale

\* ProductListSerializer(...).data of one product: the annotated aggregates
\* (total_revenue, total_units, sale_count) are not among its fields.
ProductData(pid) ==
  [id |-> pid, seller |-> products[pid].seller,
   sales_count |-> products[pid].sales_count]

\* ProductSaleSerializer(...).data of one sale.
SaleData(sale) ==
  [product |-> sale.product, seller |-> sale.seller, quantity |-> sale.quantity,
   price_at_sale |-> sale.price_at_sale, total_amount |-> total_amount(sale)]

\* The handlers of AnalyticsViewSet only query: no table is written and no
\* mail goes out.
NoWrites_reportMailed ==
  /\ UNCHANGED <<users, products, sales, categories, images, mailDelivered,
                 mailFailures>>
  /\ emailLog' = Append(emailLog, EmailLog(0, "ANALYTICS_REPORT", "PENDING", Null))

NoWrites ==
  /\ UNCHANGED <<users, products, sales, categories, images>>
  /\ NoMail

\* ProductSale.objects.filter(seller=request.user).aggregate(...)
sales_data(seller) ==
  [total_sales |-> Count(SalesOf(seller)),
   total_revenue |-> Sum(Column(SalesOf(seller), "price_at_sale")),
   total_units_sold |-> Sum(Column(SalesOf(seller), "quantity")),
   avg_order_value |-> Avg(Column(SalesOf(seller), "price_at_sale"))]

\* The body of seller_dashboard.  The [:5] slice of the ranking keeps every
\* product while the seller has at most TopCount of them.
dashboard(seller) ==
  LET recent_sales ==
        SelectSeq(SalesOf(seller), LAMBDA sale : sale.sale_date >= now - RecentDays)
  IN  [sales_summary |-> sales_data(seller),
       top_products |-> {ProductData(pid) : pid \in Owned(seller)},
       recent_sales_count |-> Count(recent_sales),
       low_stock_alerts |->
         Cardinality({p \in Owned(seller) :
                        products[p].stock_quantity <= DashboardLowStock}),
       recent_sales |-> [i \in 1..Len(recent_sales) |-> SaleData(recent_sales[i])]]

\* AnalyticsViewSet.seller_dashboard: IsAuthenticated is checked before the
\* cached method is entered, is_seller inside it.
seller_dashboard ==
  /\ \E w \in Workers : workers[w].pc = "idle"
  /\ Accept
  /\ \E actor \in Actors :
       IF actor = 0
         THEN /\ Reply("seller_dashboard", 0, 0, [actor |-> actor], Page(401, NoBody))
              /\ UNCHANGED cache
         ELSE cache_page(CacheKey("seller_dashboard", 0), "seller_dashboard",
                         [actor |-> actor],
                         IF ~is_seller(users[actor]) THEN Page(403, NoBody)
                         ELSE Page(200, dashboard(actor)))
  /\ NoWrites
  /\ UNCHANGED <<workers, acceptedQty, now, walk>>

\* AnalyticsViewSet.product_analytics
product_analytics ==
  /\ \E w \in Workers : workers[w].pc = "idle"
  /\ Accept
  /\ \E actor \in Actors :
       LET done(resp) == Reply("product_analytics", actor, 0, [actor |-> actor], resp)
       IN  IF actor = 0 THEN done(Page(401, NoBody))
           ELSE IF ~is_seller(users[actor]) THEN done(Page(403, NoBody))
           ELSE done(Page(200, [products |-> {ProductData(pid) : pid \in Owned(actor)}]))
  /\ NoWrites
  /\ UNCHANGED <<workers, acceptedQty, cache, now, walk>>

\* Category.objects.annotate(total_revenue=Sum('products__sales__price_at_sale'),
\*                           total_sales=Count('products__sales'))
category_performance ==
  {LET rows == SelectSeq(sales, LAMBDA sale : products[sale.product].category = c)
   IN  [name |-> categories[c].name,
        total_revenue |-> Sum(Column(rows, "price_at_sale")),
        total_sales |-> Count(rows)] : c \in CategoryIds}

\* AnalyticsViewSet.sales_trends
sales_trends ==
  /\ \E w \in Workers : workers[w].pc = "idle"
  /\ Accept
  /\ \E actor \in Actors, days \in Opt(0..MaxDays) :
       LET req == [actor |-> actor,
                   days |-> IF days = None THEN DefaultDays ELSE days[1]]
           done(resp) == Reply("sales_trends", actor, 0, req, resp)
           rows == SelectSeq(sales, LAMBDA sale : sale.sale_date >= now - req.days)
       IN  IF actor = 0 THEN done(Page(401, NoBody))
           ELSE IF ~users[actor].is_staff THEN done(Page(403, NoBody))
           ELSE done(Page(200, [daily_trends |-> daily_sales(rows),
                                category_performance |-> category_performance]))
  /\ NoWrites
  /\ UNCHANGED <<workers, acceptedQty, cache, now, walk>>

(* ------------------------------ record_sale ---------------------------- *)
\* What ProductSaleSerializer hands to validate() and create(): the fields
\* declared read_only (product, seller, price_at_sale) are dropped from the
\* request data, so attrs carries no product.
SaleAttrs(quantity, price_at_sale) ==
  [quantity |-> quantity, product |-> NoProduct]

\* The sale row of a handler that trusts the price the caller sent.
NewSale_requestedPrice(pid, product, attrs, requested_price) ==
  [product |-> pid, seller |-> product.seller,
   quantity |-> IF attrs.quantity = None THEN 1 ELSE attrs.quantity[1],
   price_at_sale |-> IF requested_price = None THEN product.price
                                                ELSE requested_price[1],
   sale_date |-> now]

\* ProductSaleSerializer: the quantity field, then validate(attrs).
SaleErrors(attrs) ==
  IF attrs.quantity # None /\ ~PositiveIntegerField(attrs.quantity[1])
    THEN {"quantity"}
  ELSE IF /\ attrs.product # NoProduct
          /\ attrs.quantity # None
          /\ attrs.quantity[1] # 0
          /\ attrs.quantity[1] > attrs.product.stock_quantity
    THEN {"quantity"}
  ELSE {}

\* The quantity column defaults to 1.
SaleQuantity(attrs) == IF attrs.quantity = None THEN 1 ELSE attrs.quantity[1]

\* serializer.save(product=..., seller=..., buyer=..., price_at_sale=product.price)
\* whatever price_at_sale the request carried.
NewSale(pid, product, attrs, requested_price) ==
  ProductSale(pid, product.seller, SaleQuantity(attrs), product.price)

\* product = self.get_object()
RecordSaleRead(w) ==
  /\ UNCHANGED shelfVars
  /\ workers[w].pc = "idle"
  /\ Accept
  /\ \E actor \in Actors, pid \in ProductIds :
       IF actor = 0
         THEN /\ Reply("record_sale", actor, pid, NoRequest, Response(401, {}))
              /\ UNCHANGED workers
       ELSE IF ~Visible(actor, pid, products)
         THEN /\ Reply("record_sale", actor, pid, NoRequest, Response(404, {}))
              /\ UNCHANGED workers
       ELSE /\ workers' = [workers EXCEPT ![w] =
                 Handling("record_sale", "validate", actor, pid, products[pid], 0)]
            /\ NoReply
  /\ UNCHANGED <<users, products, sales, acceptedQty>>
  /\ NoMail

\* serializer.is_valid(raise_exception=True); sale = serializer.save(...)
RecordSaleCreate(w) ==
  /\ UNCHANGED shelfVars
  /\ UNCHANGED served
  /\ workers[w].pc = "validate"
  /\ \E quantity \in QuantityInputs, price_at_sale \in Opt(Prices) :
       LET me == workers[w]
           attrs == SaleAttrs(quantity, price_at_sale)
           req == [quantity |-> quantity]
       IN  IF SaleErrors(attrs) # {}
             THEN /\ Reply("record_sale", me.actor, me.pid, req,
                           Response(400, SaleErrors(attrs)))
                  /\ workers' = [workers EXCEPT ![w] = IdleWorker]
                  /\ UNCHANGED sales
           ELSE /\ sales' = Append(sales, NewSale(me.pid, me.product, attrs, price_at_sale))
                /\ workers' = [workers EXCEPT ![w] =
                     Handling("record_sale", "save", me.actor, me.pid, me.product,
                              SaleQuantity(attrs))]
                /\ NoReply
  /\ UNCHANGED <<users, products, acceptedQty>>
  /\ NoMail

\* Model.save(): every column of the in-memory instance is written; a value
\* the column's CHECK refuses raises IntegrityError and writes nothing.
SaveRefused(product) ==
  \/ ~PositiveIntegerField(product.stock_quantity)
  \/ ~PositiveIntegerField(product.sales_count)

\* product.stock_quantity -= sale.quantity; product.sales_count += sale.quantity
Sold(product, quantity) ==
  [product EXCEPT !.stock_quantity = @ - quantity, !.sales_count = @ + quantity]

\* product.save()
RecordSaleSave(w) ==
  /\ UNCHANGED shelfVars
  /\ UNCHANGED served
  /\ workers[w].pc = "save"
  /\ LET me == workers[w]
         product == Sold(me.product, me.quantity)
     IN  IF SaveRefused(product)
           THEN /\ Reply("record_sale", me.actor, me.pid,
                         NoRequest, Response(500, {}))
                /\ workers' = [workers EXCEPT ![w] = IdleWorker]
                /\ UNCHANGED products
         ELSE /\ products' = [products EXCEPT ![me.pid] = product]
              /\ workers' = [workers EXCEPT ![w] =
                   Handling("record_sale", "notify", me.actor, me.pid, product,
                            me.quantity)]
              /\ NoReply
  /\ UNCHANGED <<users, sales, acceptedQty>>
  /\ NoMail

\* NotificationService.check_and_notify_low_stock(product); return 201
RecordSaleNotify(w) ==
  /\ UNCHANGED shelfVars
  /\ UNCHANGED served
  /\ workers[w].pc = "notify"
  /\ LET me == workers[w]
     IN  /\ check_and_notify_low_stock(me.product, products)
         /\ Reply("record_sale", me.actor, me.pid, NoRequest, Response(201, {}))
         /\ acceptedQty' = [acceptedQty EXCEPT ![me.pid] = @ + me.quantity]
  /\ workers' = [workers EXCEPT ![w] = IdleWorker]
  /\ UNCHANGED <<users, products, sales>>

(* ----------------------------- update_product -------------------------- *)
\* The ownership check of update, upload_images and of the image viewset:
\* product.seller != request.user and not request.user.is_staff
MayEdit_anyone(actor, product) == TRUE

MayEdit(actor, product) == product.seller = actor \/ users[actor].is_staff

\* product = self.get_object(); the ownership check; then, inside
\* UpdateModelMixin.update, instance = self.get_object().  PUT and PATCH
\* (partial_update calls update) take the same path.
UpdateReadBy(w, actor, pid) ==
  /\ UNCHANGED shelfVars
  /\ workers[w].pc = "idle"
  /\ Accept
  /\ LET done(resp) == /\ Reply("update_product", actor, pid, NoRequest, resp)
                       /\ UNCHANGED workers
     IN  IF actor = 0 THEN done(Response(401, {}))
         ELSE IF ~Visible(actor, pid, products) THEN done(Response(404, {}))
         ELSE IF ~MayEdit(actor, products[pid]) THEN done(Response(403, {}))
         ELSE /\ workers' = [workers EXCEPT ![w] =
                   Handling("update_product", "update", actor, pid, products[pid], 0)]
              /\ NoReply
  /\ UNCHANGED <<users, products, sales, acceptedQty>>
  /\ NoMail

UpdateRead(w) ==
  \E actor \in Actors, pid \in ProductIds : UpdateReadBy(w, actor, pid)

\* ModelSerializer.update: the validated fields are set on the instance;
\* sales_count and seller are read_only and never among them.
Updated(product, price, stock_quantity, is_active, sales_count) ==
  [product EXCEPT
     !.price = IF price = None THEN @ ELSE price[1],
     !.stock_quantity = IF stock_quantity = None THEN @ ELSE stock_quantity[1],
     !.is_active = IF is_active = None THEN @ ELSE is_active[1]]

\* serializer.is_valid(raise_exception=True); self.perform_update(serializer)
UpdateSave(w) ==
  /\ UNCHANGED shelfVars
  /\ UNCHANGED served
  /\ workers[w].pc = "update"
  /\ \E price \in Opt(PriceInputs), stock_quantity \in Opt(StockInputs),
        is_active \in Opt(BOOLEAN), sales_count \in Opt({MaxQty + 1}) :
       LET me == workers[w]
           errors == ProductErrors(price, stock_quantity)
       IN  IF errors # {}
             THEN /\ Reply("update_product", me.actor, me.pid, NoRequest,
                           Response(400, errors))
                  /\ workers' = [workers EXCEPT ![w] = IdleWorker]
                  /\ UNCHANGED products
           ELSE /\ products' = [products EXCEPT ![me.pid] =
                     Updated(me.product, price, stock_quantity, is_active, sales_count)]
                /\ workers' = [workers EXCEPT ![w] =
                     Handling("update_product", "refetch", me.actor, me.pid,
                              NoProduct, 0)]
                /\ NoReply
  /\ UNCHANGED <<users, sales, acceptedQty>>
  /\ NoMail

\* updated_product = self.get_object(); check_and_notify_low_stock; return
UpdateNotify(w) ==
  /\ UNCHANGED shelfVars
  /\ UNCHANGED served
  /\ workers[w].pc = "refetch"
  /\ LET me == workers[w]
     IN  IF ~Visible(me.actor, me.pid, products)
           THEN /\ Reply("update_product", me.actor, me.pid, NoRequest,
                         Response(404, {}))
                /\ NoMail
         ELSE /\ check_and_notify_low_stock(products[me.pid], products)
              /\ Reply("update_product", me.actor, me.pid, NoRequest,
                       Response(200, {}))
  /\ workers' = [workers EXCEPT ![w] = IdleWorker]
  /\ UNCHANGED <<users, products, sales, acceptedQty>>

(* ---------------------------- product images --------------------------- *)
\* The image and alt_text columns are left out.
ProductImage(product, is_primary) ==
  [product |-> product, is_primary |-> is_primary]

ImageIds == 1..(Len(images) + 1)

\* The product field of ProductImageSerializer: a primary key of the product
\* table (all products, active or not); required unless the update is partial.
ImageFieldErrors(product, instance) ==
  IF product = None
    THEN (IF instance = 0 THEN {"product"} ELSE {})
  ELSE IF product[1] \in 1..Len(products) /\ products[product[1]] # NoProduct
    THEN {}
  ELSE {"product"}

\* ProductImageSerializer.validate.  instance is 0 when the serializer creates.
\* `attrs.get('product') or self.instance.product if self.instance else None`
\* is the conditional expression (... or ...) if self.instance else None:
\* without an instance the product is None and nothing is looked up.
ImageErrors(product, is_primary, instance) ==
  IF is_primary = Some(TRUE)
    THEN LET checked == IF instance # 0
                          THEN (IF product # None THEN product[1]
                                                  ELSE images[instance].product)
                          ELSE 0
         IN  IF /\ checked # 0
                /\ \E i \in 1..Len(images) :
                     /\ i # instance
                     /\ images[i].product = checked
                     /\ images[i].is_primary
               THEN {"is_primary"}
               ELSE {}
    ELSE {}

\* ProductImageViewSet.create: the serializer, then perform_create.
ImageCreate ==
  /\ \E w \in Workers : workers[w].pc = "idle"
  /\ Accept
  /\ \E actor \in Actors, product \in Opt(ProductIds), is_primary \in Opt(BOOLEAN) :
       LET req == [actor |-> actor, product |-> product, is_primary |-> is_primary]
           done(resp) == Reply("create_image", actor, 0, req, resp)
       IN  IF actor = 0 THEN done(Response(401, {})) /\ UNCHANGED images
           ELSE IF ImageFieldErrors(product, 0) # {}
             THEN done(Response(400, ImageFieldErrors(product, 0))) /\ UNCHANGED images
           ELSE IF ImageErrors(product, is_primary, 0) # {}
             THEN /\ done(Response(400, ImageErrors(product, is_primary, 0)))
                  /\ UNCHANGED images
           ELSE IF ~MayEdit(actor, products[product[1]])
             THEN done(Response(403, {})) /\ UNCHANGED images
           ELSE /\ images' = Append(images,
                               ProductImage(product[1], is_primary = Some(TRUE)))
                /\ done(Response(201, {}))
  /\ UNCHANGED <<users, products, sales, workers, acceptedQty, categories, cache,
                 now, walk>>
  /\ NoMail

\* ProductImageViewSet.update / partial_update: get_object, the serializer,
\* save.  The viewset checks ownership in perform_create only.
ImageUpdate ==
  /\ \E w \in Workers : workers[w].pc = "idle"
  /\ Accept
  /\ \E actor \in Actors, iid \in ImageIds, product \in Opt(ProductIds),
        is_primary \in Opt(BOOLEAN) :
       LET req == [actor |-> actor, image |-> iid, product |-> product,
                   is_primary |-> is_primary]
           done(resp) == Reply("update_image", actor, 0, req, resp)
       IN  IF actor = 0 THEN done(Response(401, {})) /\ UNCHANGED images
           ELSE IF iid > Len(images) THEN done(Response(404, {})) /\ UNCHANGED images
           ELSE IF ImageFieldErrors(product, iid) # {}
             THEN /\ done(Response(400, ImageFieldErrors(product, iid)))
                  /\ UNCHANGED images
           ELSE IF ImageErrors(product, is_primary, iid) # {}
             THEN /\ done(Response(400, ImageErrors(product, is_primary, iid)))
                  /\ UNCHANGED images
           ELSE /\ images' = [images EXCEPT ![iid] =
                     [product |-> IF product = None THEN @.product ELSE product[1],
                      is_primary |-> IF is_primary = None THEN @.is_primary
                                                          ELSE is_primary[1]]]
                /\ done(Response(200, {}))
  /\ UNCHANGED <<users, products, sales, workers, acceptedQty, categories, cache,
                 now, walk>>
  /\ NoMail

\* ProductViewSet.upload_images: every file becomes an image that is not
\* primary.
RECURSIVE Uploaded(_, _)
Uploaded(pid, count) ==
  IF count = 0 THEN <<>>
  ELSE Append(Uploaded(pid, count - 1), ProductImage(pid, FALSE))

UploadImages ==
  /\ \E w \in Workers : workers[w].pc = "idle"
  /\ Accept
  /\ \E actor \in Actors, pid \in ProductIds, count \in 0..MaxUploads :
       LET req == [actor |-> actor, product |-> pid, count |-> count]
           done(resp) == Reply("upload_images", actor, pid, req, resp)
       IN  IF actor = 0 THEN done(Response(401, {})) /\ UNCHANGED images
           ELSE IF ~Visible(actor, pid, products)
             THEN done(Response(404, {})) /\ UNCHANGED images
           ELSE IF ~MayEdit(actor, products[pid])
             THEN done(Response(403, {})) /\ UNCHANGED images
           ELSE IF count = 0
             THEN done(Response(400, {"images"})) /\ UNCHANGED images
           ELSE /\ images' = images \o Uploaded(pid, count)
                /\ done(Response(201, {}))
  /\ UNCHANGED <<users, products, sales, workers, acceptedQty, categories, cache,
                 now, walk>>
  /\ NoMail

(* ----------------------------- delete_product -------------------------- *)
\* DELETE products/<id>/: ProductViewSet overrides update only, so this is
\* DestroyModelMixin.destroy: get_object() then instance.delete().  The
\* foreign keys ProductImage.product and ProductSale.product are
\* on_delete=CASCADE: the images and the sales of the product go with it.
DestroyProduct ==
  /\ \E w \in Workers : workers[w].pc = "idle"
  /\ Accept
  /\ \E actor \in Actors, pid \in ProductIds :
       LET req == [actor |-> actor, pid |-> pid]
           done(resp) == Reply("delete_product", actor, pid, req, resp)
       IN  IF actor = 0
             THEN done(Response(401, {})) /\ UNCHANGED <<products, images, sales>>
           ELSE IF ~Visible(actor, pid, products)
             THEN done(Response(404, {})) /\ UNCHANGED <<products, images, sales>>
           ELSE /\ products' = [products EXCEPT ![pid] = NoProduct]
                /\ images' = SelectSeq(images, LAMBDA image : image.product # pid)
                /\ sales' = SelectSeq(sales, LAMBDA sale : sale.product # pid)
                /\ done(Response(204, {}))
  /\ UNCHANGED <<users, workers, acceptedQty, categories, cache, now, walk>>
  /\ NoMail

(* ---------------------------------- me -------------------------------- *)
\* UserProfileSerializer(user).data
ProfileData(table, uid) ==
  [id |-> uid, username |-> table[uid].username, role |-> table[uid].role,
   store_name |-> table[uid].store_name]

\* GET users/me/, inside cache_page(60 * 5): IsAuthenticated is checked before
\* the cached method is entered.  PUT and PATCH on the same URL (UpdateProfile)
\* pass through cache_page untouched: they read no entry, store none and
\* remove none.
MeGet ==
  /\ \E w \in Workers : workers[w].pc = "idle"
  /\ Accept
  /\ \E actor \in Actors :
       IF actor = 0
         THEN /\ Reply("me", 0, 0, [actor |-> actor], Page(401, NoBody))
              /\ UNCHANGED cache
         ELSE cache_page(CacheKey("me", 0), "me", [actor |-> actor],
                         Page(200, ProfileData(users, actor)))
  /\ UNCHANGED <<users, products, sales, workers, acceptedQty, categories, now,
                 walk, images>>
  /\ NoMail

Init ==
  /\ users = << [username |-> "root", role |-> "CONSUMER", store_name |-> Null,
                 is_staff |-> TRUE] >>
  /\ products = <<>>
  /\ sales = <<>>
  /\ emailLog = <<>>
  /\ mailDelivered = 0
  /\ mailFailures = <<>>
  /\ workers = [w \in Workers |-> IdleWorker]
  /\ last = [op |-> "none", req |-> NoRequest, resp |-> Response(0, {})]
  /\ served = 0
  /\ acceptedQty = <<>>
  /\ categories = <<>>
  /\ cache = {}
  /\ now = 0
  /\ walk = NoWalk
  /\ images = <<>>

Next ==
  \/ Register
  \/ CreateProduct
  \/ \E w \in Workers : RecordSaleRead(w)
  \/ \E w \in Workers : RecordSaleCreate(w)
  \/ \E w \in Workers : RecordSaleSave(w)
  \/ \E w \in Workers : RecordSaleNotify(w)
  \/ \E w \in Workers : UpdateRead(w)
  \/ \E w \in Workers : UpdateSave(w)
  \/ \E w \in Workers : UpdateNotify(w)

Spec == Init /\ [][Next]_vars

\* The same system later on: a seller has registered (the welcome mail went
\* out) and listed one active product; the run serves MaxRequests - 1 more
\* requests.
SeededInit ==
  /\ users = << [username |-> "root", role |-> "CONSUMER", store_name |-> Null,
                 is_staff |-> TRUE],
                User("ann", "SELLER") >>
  /\ \E stock_quantity \in StockChoices :
       products = << Product(2, 1, stock_quantity, TRUE) >>
  /\ sales = <<>>
  /\ emailLog = << LogOf(2, "WELCOME", "ok") >>
  /\ mailDelivered = 1
  /\ mailFailures = <<>>
  /\ workers = [w \in Workers |-> IdleWorker]
  /\ last = [op |-> "none", req |-> NoRequest, resp |-> Response(0, {})]
  /\ acceptedQty = <<0>>
  /\ served = 1
  /\ categories = <<>>
  /\ cache = {}
  /\ now = 0
  /\ walk = NoWalk
  /\ images = <<>>

\* The handlers that read a product row and write it back.
CatalogNext ==
  \/ \E w \in Workers : RecordSaleRead(w)
  \/ \E w \in Workers : RecordSaleCreate(w)
  \/ \E w \in Workers : RecordSaleSave(w)
  \/ \E w \in Workers : RecordSaleNotify(w)
  \/ \E w \in Workers : UpdateRead(w)
  \/ \E w \in Workers : UpdateSave(w)
  \/ \E w \in Workers : UpdateNotify(w)

CatalogSpec == SeededInit /\ [][CatalogNext]_vars

\* Concurrent record_sale calls on one product with one unit in stock.
SaleInit == SeededInit /\ products[1].stock_quantity = 1

SaleNext ==
  \/ \E w \in Workers : RecordSaleRead(w)
  \/ \E w \in Workers : RecordSaleCreate(w)
  \/ \E w \in Workers : RecordSaleSave(w)
  \/ \E w \in Workers : RecordSaleNotify(w)

SaleSpec == SaleInit /\ [][SaleNext]_vars

\* record_sale next to update_product on the product with one unit in stock.
PriceSpec == SaleInit /\ [][CatalogNext]_vars

\* Registrations and profile updates.
AccountNext ==
  \/ Register
  \/ UpdateProfile

AccountSpec == Init /\ [][AccountNext]_vars

\* Browsing and the admin dashboard next to product updates: a staff user, a
\* seller and one product of the seller's, active or not.
BrowseInit ==
  /\ users = << [username |-> "root", role |-> "CONSUMER", store_name |-> Null,
                 is_staff |-> TRUE],
                User("ann", "SELLER") >>
  /\ \E is_active \in BOOLEAN :
       products = << Product(2, 1, LowStockThreshold + 1, is_active) >>
  /\ sales = <<>>
  /\ emailLog = << LogOf(2, "WELCOME", "ok") >>
  /\ mailDelivered = 1
  /\ mailFailures = <<>>
  /\ workers = [w \in Workers |-> IdleWorker]
  /\ last = [op |-> "none", req |-> NoRequest, resp |-> Response(0, {})]
  /\ acceptedQty = <<0>>
  /\ served = 0
  /\ categories = <<>>
  /\ cache = {}
  /\ now = 0
  /\ walk = NoWalk
  /\ images = <<>>

BrowseNext ==
  \/ ListProducts
  \/ RetrieveProduct
  \/ admin_dashboard
  \/ CacheTimeout
  \/ \E w \in Workers : UpdateRead(w)
  \/ \E w \in Workers : UpdateSave(w)
  \/ \E w \in Workers : UpdateNotify(w)

BrowseSpec == BrowseInit /\ [][BrowseNext]_vars

\* Category maintenance from an empty category table.
CategoryInit ==
  /\ users = << [username |-> "root", role |-> "CONSUMER", store_name |-> Null,
                 is_staff |-> TRUE],
                User("ann", "SELLER") >>
  /\ products = <<>>
  /\ sales = <<>>
  /\ emailLog = << LogOf(2, "WELCOME", "ok") >>
  /\ mailDelivered = 1
  /\ mailFailures = <<>>
  /\ workers = [w \in Workers |-> IdleWorker]
  /\ last = [op |-> "none", req |-> NoRequest, resp |-> Response(0, {})]
  /\ acceptedQty = <<>>
  /\ served = 0
  /\ categories = <<>>
  /\ cache = {}
  /\ now = 0
  /\ walk = NoWalk
  /\ images = <<>>

CategoryNext ==
  \/ CreateCategory
  \/ AdminAddCategory
  \/ UpdateCategory

CategorySpec == CategoryInit /\ [][CategoryNext]_vars

\* One request against a category table of MaxCategories categories as the
\* admin site and update_category can leave it (any parent but the category
\* itself, at most one category inactive), with an active and an inactive
\* product.
TreeInit ==
  /\ users = << [username |-> "root", role |-> "CONSUMER", store_name |-> Null,
                 is_staff |-> TRUE] >>
  /\ \E parent \in [1..MaxCategories -> 0..MaxCategories], inactive \in 0..MaxCategories :
       /\ \A c \in 1..MaxCategories : parent[c] # c
       /\ categories = [c \in 1..MaxCategories |->
                          Category(CatalogueNames[c], Slugify(CatalogueNames[c]),
                                   parent[c], c # inactive)]
  /\ \E shelf \in 1..MaxCategories, backroom \in 1..MaxCategories :
       products = << CategoryProduct(shelf, TRUE), CategoryProduct(backroom, FALSE) >>
  /\ sales = <<>>
  /\ emailLog = <<>>
  /\ mailDelivered = 0
  /\ mailFailures = <<>>
  /\ workers = [w \in Workers |-> IdleWorker]
  /\ last = [op |-> "none", req |-> NoRequest, resp |-> Response(0, {})]
  /\ acceptedQty = <<0, 0>>
  /\ served = MaxRequests - 1
  /\ cache = {}
  /\ now = 0
  /\ walk = NoWalk
  /\ images = <<>>

TreeNext ==
  \/ CategoryProducts
  \/ FullPathStart
  \/ FullPathStep

TreeSpec == TreeInit /\ [][TreeNext]_vars

\* Sales of the seeded product over MaxDays days, and the seller's report.
ReportNext ==
  \/ \E w \in Workers : RecordSaleRead(w)
  \/ \E w \in Workers : RecordSaleCreate(w)
  \/ \E w \in Workers : RecordSaleSave(w)
  \/ \E w \in Workers : RecordSaleNotify(w)
  \/ Tick
  \/ sales_report

ReportSpec == SeededInit /\ [][ReportNext]_vars

\* The analytics endpoints over a store with two sellers: ann has one product
\* in the first category and has sold `sold` units of it in one sale on day
\* 0 (none when sold = 0); bob has no product and no sale; the second
\* category has no product.
AnalyticsInit ==
  /\ users = << [username |-> "root", role |-> "CONSUMER", store_name |-> Null,
                 is_staff |-> TRUE],
                User("ann", "SELLER"), User("bob", "SELLER") >>
  /\ now = 0
  /\ categories = << Category("Books", Slugify("Books"), 0, TRUE),
                     Category("Toys", Slugify("Toys"), 0, TRUE) >>
  /\ \E sold \in 0..MaxQty, price \in Prices :
       /\ products = << CatalogProduct(2, price, LowStockThreshold + 1, sold, 1) >>
       /\ sales = IF sold = 0 THEN <<>> ELSE << ProductSale(1, 2, sold, price) >>
       /\ acceptedQty = <<sold>>
  /\ emailLog = << LogOf(2, "WELCOME", "ok"), LogOf(3, "WELCOME", "ok") >>
  /\ mailDelivered = 2
  /\ mailFailures = <<>>
  /\ workers = [w \in Workers |-> IdleWorker]
  /\ last = [op |-> "none", req |-> NoRequest, resp |-> Response(0, {})]
  /\ served = 0
  /\ cache = {}
  /\ walk = NoWalk
  /\ images = <<>>

AnalyticsNext ==
  \/ seller_dashboard
  \/ sales_report
  \/ product_analytics
  \/ admin_dashboard
  \/ sales_trends
  \/ Tick
  \/ CacheTimeout

AnalyticsSpec == AnalyticsInit /\ [][AnalyticsNext]_vars

\* Product updates by the staff user, the owning seller and another seller:
\* ann's one product, active or not, low in stock or not.
EditInit ==
  /\ users = << [username |-> "root", role |-> "CONSUMER", store_name |-> Null,
                 is_staff |-> TRUE],
                User("ann", "SELLER"), User("bob", "SELLER") >>
  /\ \E stock_quantity \in StockChoices, is_active \in BOOLEAN :
       products = << Product(2, 1, stock_quantity, is_active) >>
  /\ sales = <<>>
  /\ emailLog = << LogOf(2, "WELCOME", "ok"), LogOf(3, "WELCOME", "ok") >>
  /\ mailDelivered = 2
  /\ mailFailures = <<>>
  /\ workers = [w \in Workers |-> IdleWorker]
  /\ last = [op |-> "none", req |-> NoRequest, resp |-> Response(0, {})]
  /\ acceptedQty = <<0>>
  /\ served = 1
  /\ categories = <<>>
  /\ cache = {}
  /\ now = 0
  /\ walk = NoWalk
  /\ images = <<>>

EditNext ==
  \/ \E w \in Workers : UpdateRead(w)
  \/ \E w \in Workers : UpdateSave(w)
  \/ \E w \in Workers : UpdateNotify(w)

EditSpec == EditInit /\ [][EditNext]_vars

\* Product creation and profile updates once a seller and a consumer have
\* registered: no product yet.
ListingInit ==
  /\ users = << [username |-> "root", role |-> "CONSUMER", store_name |-> Null,
                 is_staff |-> TRUE],
                User("ann", "SELLER"), User("bob", "CONSUMER") >>
  /\ products = <<>>
  /\ sales = <<>>
  /\ emailLog = << LogOf(2, "WELCOME", "ok"), LogOf(3, "WELCOME", "ok") >>
  /\ mailDelivered = 2
  /\ mailFailures = <<>>
  /\ workers = [w \in Workers |-> IdleWorker]
  /\ last = [op |-> "none", req |-> NoRequest, resp |-> Response(0, {})]
  /\ acceptedQty = <<>>
  /\ served = 1
  /\ categories = <<>>
  /\ cache = {}
  /\ now = 0
  /\ walk = NoWalk
  /\ images = <<>>

ListingNext ==
  \/ UpdateProfile
  \/ CreateProduct
  \/ CreateProductNaming

ListingSpec == ListingInit /\ [][ListingNext]_vars

\* The image endpoints over two sellers' products, no image yet.
GalleryInit ==
  /\ users = << [username |-> "root", role |-> "CONSUMER", store_name |-> Null,
                 is_staff |-> TRUE],
                User("ann", "SELLER"), User("bob", "SELLER") >>
  /\ products = << Product(2, 1, LowStockThreshold + 1, TRUE),
                   Product(3, 1, LowStockThreshold + 1, TRUE) >>
  /\ sales = <<>>
  /\ emailLog = << LogOf(2, "WELCOME", "ok"), LogOf(3, "WELCOME", "ok") >>
  /\ mailDelivered = 2
  /\ mailFailures = <<>>
  /\ workers = [w \in Workers |-> IdleWorker]
  /\ last = [op |-> "none", req |-> NoRequest, resp |-> Response(0, {})]
  /\ acceptedQty = <<0, 0>>
  /\ served = 0
  /\ categories = <<>>
  /\ cache = {}
  /\ now = 0
  /\ walk = NoWalk
  /\ images = <<>>

GalleryNext ==
  \/ ImageCreate
  \/ ImageUpdate
  \/ UploadImages

GallerySpec == GalleryInit /\ [][GalleryNext]_vars

\* Deletes and updates of a product that has an image and a recorded sale:
\* ann's product, of which `sold` units went in one sale; bob is another
\* seller.
RemovalInit ==
  /\ users = << [username |-> "root", role |-> "CONSUMER", store_name |-> Null,
                 is_staff |-> TRUE],
                User("ann", "SELLER"), User("bob", "SELLER") >>
  /\ now = 0
  /\ \E sold \in 1..MaxQty, is_active \in BOOLEAN :
       /\ products = << [Product(2, 1, LowStockThreshold + 1, is_active)
                           EXCEPT !.sales_count = sold] >>
       /\ sales = << ProductSale(1, 2, sold, 1) >>
       /\ acceptedQty = <<sold>>
  /\ images = << ProductImage(1, TRUE) >>
  /\ emailLog = << LogOf(2, "WELCOME", "ok"), LogOf(3, "WELCOME", "ok") >>
  /\ mailDelivered = 2
  /\ mailFailures = <<>>
  /\ workers = [w \in Workers |-> IdleWorker]
  /\ last = [op |-> "none", req |-> NoRequest, resp |-> Response(0, {})]
  /\ served = 1
  /\ categories = <<>>
  /\ cache = {}
  /\ walk = NoWalk

RemovalNext ==
  \/ DestroyProduct
  \/ \E w \in Workers : UpdateRead(w)
  \/ \E w \in Workers : UpdateSave(w)
  \/ \E w \in Workers : UpdateNotify(w)

RemovalSpec == RemovalInit /\ [][RemovalNext]_vars

\* The me endpoint read and written by a staff user, a seller and a consumer.
ProfileNext ==
  \/ MeGet
  \/ UpdateProfile
  \/ CacheTimeout

ProfileInit ==
  /\ users = << [username |-> "root", role |-> "CONSUMER", store_name |-> Null,
                 is_staff |-> TRUE],
                User("ann", "SELLER"), User("bob", "CONSUMER") >>
  /\ products = <<>>
  /\ sales = <<>>
  /\ emailLog = << LogOf(2, "WELCOME", "ok"), LogOf(3, "WELCOME", "ok") >>
  /\ mailDelivered = 2
  /\ mailFailures = <<>>
  /\ workers = [w \in Workers |-> IdleWorker]
  /\ last = [op |-> "none", req |-> NoRequest, resp |-> Response(0, {})]
  /\ acceptedQty = <<>>
  /\ served = 0
  /\ categories = <<>>
  /\ cache = {}
  /\ now = 0
  /\ walk = NoWalk
  /\ images = <<>>

ProfileSpec == ProfileInit /\ [][ProfileNext]_vars

(* ------------------------------- claims -------------------------------- *)
Idle == \A w \in Workers : workers[w].pc = "idle"

RECURSIVE UnitsSold(_, _)
UnitsSold(rows, pid) ==
  IF rows = <<>> THEN 0
  ELSE (IF Head(rows).product = pid THEN Head(rows).quantity ELSE 0)
       + UnitsSold(Tail(rows), pid)

\* The quantity the record_sale call of worker w asked for, read after its
\* validation step: from the handler when it went on, else from the answer.
Asked(w) ==
  IF workers'[w].pc = "save" THEN workers'[w].quantity
  ELSE IF last'.req.quantity = None THEN 1
  ELSE last'.req.quantity[1]

\* C1: a record_sale that asks for more than the product's stock fails with
\* a validation error on quantity, creates no ProductSale row and leaves the
\* product unchanged.
C1_OversellRejected ==
  [][\A w \in Workers :
       (/\ workers[w].pc = "validate"
        /\ workers'[w].pc # "validate"
        /\ Asked(w) > products[workers[w].pid].stock_quantity)
       => (/\ last'.resp = Response(400, {"quantity"})
           /\ sales' = sales
           /\ products' = products)]_vars

\* C2: in every state reached by create_product, update_product and
\* record_sale calls, every product has stock_quantity >= 0.
C2_StockNeverNegative ==
  \A p \in 1..Len(products) : products[p].stock_quantity >= 0

\* A record_sale whose decrement would go below zero has just been refused
\* by the column check.
C2_Witness ==
  /\ last.op = "record_sale"
  /\ last.resp.status = 500
  /\ \E p \in 1..Len(products) : products[p].stock_quantity > 0

\* C3: with concurrent record_sale calls on one product, the quantities of
\* the accepted calls sum to at most the initial stock (one unit here), and
\* the stock never goes negative.
C3_AcceptedFitsStock ==
  /\ acceptedQty[1] <= 1
  /\ products[1].stock_quantity >= 0

\* C4: check, decrement and increment are one atomic unit: once every call
\* has returned, stock_quantity is the initial stock (one unit here) minus
\* the accepted quantities and sales_count is their sum.
C4_NoLostUpdate ==
  Idle => /\ products[1].stock_quantity = 1 - acceptedQty[1]
          /\ products[1].sales_count = acceptedQty[1]

\* C5: the sale row and the product update are persisted all-or-nothing:
\* whenever no handler is running, each product's sales_count is the sum of
\* the quantities of its ProductSale rows.
C5_SaleAndProductAtomic ==
  Idle => \A p \in 1..Len(products) :
            products[p].sales_count = UnitsSold(sales, p)

\* C6: a product's sales_count never decreases and changes only in
\* record_sale's save; create_product starts it at 0 and update_product
\* leaves it as it is.
C6_SalesCountMonotonic ==
  [][/\ \A p \in 1..Len(products) :
          /\ products'[p].sales_count >= products[p].sales_count
          /\ products'[p].sales_count # products[p].sales_count
               => \E w \in Workers : /\ workers[w].op = "record_sale"
                                     /\ workers[w].pc = "save"
                                     /\ workers[w].pid = p
     /\ \A p \in (Len(products) + 1)..Len(products') :
          products'[p].sales_count = 0]_vars

\* C7: record_sale with quantity < 1 creates no row, so every ProductSale
\* row has quantity >= 1.
C7_QuantityAtLeastOne ==
  \A i \in 1..Len(sales) : sales[i].quantity >= 1

\* C8: the price_at_sale of a new ProductSale row is the price record_sale
\* read from the product, whatever price the caller sent, and no later step
\* (update_product changing the price included) changes the price_at_sale of
\* a row that exists.
C8_PriceSnapshot ==
  [][/\ \A i \in 1..Len(sales) :
          i <= Len(sales') /\ sales'[i].price_at_sale = sales[i].price_at_sale
     /\ \A i \in (Len(sales) + 1)..Len(sales') :
          \E w \in Workers :
            /\ workers[w].pc = "validate"
            /\ workers'[w].pc = "save"
            /\ sales'[i].product = workers[w].pid
            /\ sales'[i].price_at_sale = workers[w].product.price]_vars

\* A sale was recorded and the product's price was changed afterwards.
C8_Witness ==
  /\ last.op = "update_product"
  /\ last.resp.status = 200
  /\ \E i \in 1..Len(sales) :
       sales[i].price_at_sale # products[sales[i].product].price

FailedLogs == {i \in 1..Len(emailLog) : emailLog[i].status = "FAILED"}

SentLogs == {i \in 1..Len(emailLog) : emailLog[i].status = "SENT"}

\* C9: a mail transport failure during registration, record_sale or
\* update_product never fails the operation: the step in which send_mail
\* raises answers 201/200 with the user, sale or update persisted, and adds
\* exactly one EmailLog row, FAILED, carrying the error raised; so the FAILED
\* rows are exactly the failed attempts and the SENT rows the delivered ones.
C9_MailFailureIsLogged ==
  [][/\ Len(mailFailures') = Len(mailFailures) + 1
          => /\ last'.resp.status \in {200, 201}
             /\ Len(emailLog') = Len(emailLog) + 1
             /\ emailLog'[Len(emailLog')].status = "FAILED"
             /\ emailLog'[Len(emailLog')].error_message
                  = mailFailures'[Len(mailFailures')]
             /\ last'.op = "register"
                  => /\ Len(users') = Len(users) + 1
                     /\ emailLog'[Len(emailLog')].email_type = "WELCOME"
             /\ last'.op = "record_sale"
                  => /\ emailLog'[Len(emailLog')].email_type = "LOW_STOCK_ALERT"
                     /\ sales' = sales
                     /\ \E w \in Workers, i \in 1..Len(sales) :
                          /\ workers[w].pc = "notify"
                          /\ workers'[w].pc = "idle"
                          /\ sales[i].product = workers[w].pid
                          /\ sales[i].quantity = workers[w].quantity
             /\ last'.op = "update_product"
                  => /\ emailLog'[Len(emailLog')].email_type = "LOW_STOCK_ALERT"
                     /\ products' = products
     /\ Cardinality(FailedLogs') = Len(mailFailures')
     /\ Cardinality(SentLogs') = mailDelivered']_vars

\* The welcome mail of a registration and the low-stock alert of a later
\* sale both failed, and the sale was answered 201.
C9_Witness ==
  /\ last.op = "record_sale"
  /\ last.resp.status = 201
  /\ Len(emailLog) >= 2
  /\ emailLog[1].email_type = "WELCOME"
  /\ emailLog[1].status = "FAILED"
  /\ emailLog[Len(emailLog)].email_type = "LOW_STOCK_ALERT"
  /\ emailLog[Len(emailLog)].status = "FAILED"

\* C10: a registration asking for role SELLER without a store_name fails and
\* creates no user, and when its other fields pass the serializer the error
\* is keyed on store_name; one asking for SELLER with a store_name, its other
\* fields passing the serializer, succeeds and the stored user has role
\* SELLER, never CONSUMER.
C10_SellerNeedsStoreName ==
  [][last'.op = "register" =>
       /\ (last'.req.seller /\ ~last'.req.store_name)
            => /\ last'.resp.status = 400
               /\ users' = users
               /\ last'.req.valid => last'.resp.errors = {"store_name"}
       /\ (last'.req.seller /\ last'.req.store_name /\ last'.req.valid)
            => /\ last'.resp = Response(201, {})
               /\ Len(users') = Len(users) + 1
               /\ users'[Len(users')].role = "SELLER"]_vars

\* A seller is registered, and a later SELLER registration without a
\* store_name has just been refused on store_name.
C10_Witness ==
  /\ \E u \in 1..Len(users) : users[u].role = "SELLER"
  /\ last.op = "register"
  /\ last.req.seller
  /\ ~last.req.store_name
  /\ last.resp = Response(400, {"store_name"})

\* C11: every stored user with role SELLER has a non-empty store_name: the
\* one given at registration is persisted and no profile update blanks it.
C11_SellerHasStoreName ==
  \A u \in 1..Len(users) :
    users[u].role = "SELLER" => users[u].store_name \notin {Null, ""}

\* C12: no profile update (users/me/ or users/<id>/) changes any user's role,
\* whatever role value the request carries.
C12_RoleImmutable ==
  [][last'.op = "update_profile" =>
       /\ Len(users') = Len(users)
       /\ \A u \in 1..Len(users) : users'[u].role = users[u].role]_vars

\* A profile update asking for another role than the user's was answered 200
\* and changed the user's store_name.
C12_Witness ==
  /\ last.op = "update_profile"
  /\ last.resp.status = 200
  /\ last.req.role \in ROLE_CHOICES
  /\ last.req.role # users[last.req.target].role
  /\ users[last.req.target].store_name = "Shop"

\* C13: every admin_dashboard call by an actor who is not staff is answered
\* with a permission error and carries no dashboard data, whatever was
\* answered (and cached) before.
C13_AdminDashboardStaffOnly ==
  [][(last'.op = "admin_dashboard" /\ ~IsStaff(last'.req.actor))
       => /\ last'.resp.status \in {401, 403}
          /\ last'.resp.body = NoBody]_vars

\* C14: every product list or detail response delivered to a viewer who is
\* not staff shows only products that are active, in the response and in the
\* table, whatever was requested, cached or deactivated before.
C14_NonStaffSeeOnlyActive ==
  [][(last'.op \in {"list_products", "retrieve_product"}
        /\ ~IsStaff(last'.req.actor) /\ last'.resp.status = 200)
       => \A shown \in last'.resp.body.products :
            shown.is_active /\ products'[shown.id].is_active]_vars

\* The k-th ancestor of category c in the table, 0 when the chain ends first.
RECURSIVE AncestorAt(_, _, _)
AncestorAt(table, c, k) ==
  IF k = 0 \/ c = 0 THEN c
  ELSE AncestorAt(table, table[c].parent_category, k - 1)

Ancestors(table, c) == {AncestorAt(table, c, k) : k \in 1..Len(table)} \ {0}

\* C16: the parent_category relation has no cycle: after any category
\* creates and updates no category is its own ancestor.
C16_NoCategoryCycle ==
  \A c \in CategoryIds : c \notin Ancestors(categories, c)

\* C19: a category created through create_category gets the slug derived
\* from its name (with a numeric suffix when that slug is taken), and no two
\* categories ever share a slug.
C19_SlugFromName ==
  [][(last'.op = "create_category" /\ last'.resp.status = 201)
       => /\ Len(categories') = Len(categories) + 1
          /\ categories'[Len(categories')].slug
               \in {Slugify(last'.req.name), "books-1", "toys-1"}
          /\ \A c \in CategoryIds :
               categories'[c].slug # categories'[Len(categories')].slug]_vars

\* The category itself and its transitive descendants.
TreeOf(cid) == {c \in CategoryIds : c = cid \/ cid \in Ancestors(categories, c)}

\* C15: a products-of-category response lists exactly the active products
\* whose category is the category asked for or one of its transitive
\* descendants: no inactive product and none of another category.
C15_ProductsInCategoryTree ==
  [][(last'.op = "category_products" /\ last'.resp.status = 200)
       => /\ {shown.id : shown \in last'.resp.body.products}
               = {p \in 1..Len(products) :
                    /\ products[p].is_active
                    /\ products[p].category \in TreeOf(last'.req.category)}
          /\ \A shown \in last'.resp.body.products : shown.is_active]_vars

\* The active product sits two levels under the category asked for, the
\* inactive one in the same tree, and the response lists the active one only.
C15_Witness ==
  /\ last.op = "category_products"
  /\ last.resp.status = 200
  /\ categories[products[1].category].parent_category # 0
  /\ categories[categories[products[1].category].parent_category].parent_category
       = last.req.category
  /\ products[2].category \in TreeOf(last.req.category)
  /\ last.resp.body.products = {Listed(1, products)}

\* C17: full_path terminates: it never walks through a category twice (the
\* path never holds more names than there are categories); on a cycle it
\* stops with CorruptHierarchyError.
C17_FullPathTerminates ==
  walk.pc = "walking" => Len(walk.path) <= Len(categories)

NamedBy(name) == CHOOSE c \in CategoryIds : categories[c].name = name

\* C18: on an acyclic parent chain full_path returns the names from the root
\* down to the category itself, one per level.
C18_FullPathRootToLeaf ==
  [][last'.op = "full_path" =>
       LET path == last'.resp.body.path
       IN  /\ path[Len(path)] = categories[last'.req.category].name
           /\ categories[NamedBy(path[1])].parent_category = 0
           /\ \A i \in 1..(Len(path) - 1) :
                categories[NamedBy(path[i + 1])].parent_category = NamedBy(path[i])]_vars

\* full_path has returned a path of three levels.
C18_Witness ==
  /\ last.op = "full_path"
  /\ Len(last.resp.body.path) = 3

\* The seller's sales made within the last d days.
Recent(seller, d) ==
  {i \in 1..Len(sales) : sales[i].seller = seller /\ now - sales[i].sale_date <= d}

\* C20: sales_report(seller, days = d) counts only the seller's sales of the
\* last d days, and when all of the seller's sales are older it reports zero
\* totals and an empty daily breakdown.
C20_ReportWindow ==
  [][(last'.op = "sales_report" /\ last'.resp.status = 200)
       => LET recent == Recent(last'.req.actor, last'.req.days)
              body == last'.resp.body
          IN  /\ body.summary.total_sales = Cardinality(recent)
              /\ (recent = {} /\ \E i \in 1..Len(sales) :
                                   sales[i].seller = last'.req.actor) =>
                   /\ body.summary.total_sales = 0
                   /\ body.summary.total_revenue = Some(0)
                   /\ body.summary.total_units = Some(0)
                   /\ body.daily_breakdown = {}]_vars

\* The window alone: the report counts exactly the seller's sales of the
\* last d days and its daily breakdown has the days of those sales.
C20_WindowCount ==
  [][(last'.op = "sales_report" /\ last'.resp.status = 200)
       => LET recent == Recent(last'.req.actor, last'.req.days)
              body == last'.resp.body
          IN  /\ body.summary.total_sales = Cardinality(recent)
              /\ {day.sale_day : day \in body.daily_breakdown}
                   = {sales[i].sale_date : i \in recent}]_vars
\* C21: in every analytics operation an aggregate computed over no rows is
\* reported as zero, never as null: the sums and averages of the seller
\* dashboard, of the sales report and of the sales trends carry a value, and
\* the platform revenue of the admin dashboard is a number.
C21_NoRowsReportZero ==
  [][last'.resp.status = 200 =>
       /\ last'.op = "seller_dashboard"
            => /\ last'.resp.body.sales_summary.total_revenue # None
               /\ last'.resp.body.sales_summary.total_units_sold # None
               /\ last'.resp.body.sales_summary.avg_order_value # None
       /\ last'.op = "sales_report"
            => /\ last'.resp.body.summary.total_revenue # None
               /\ last'.resp.body.summary.total_units # None
               /\ last'.resp.body.summary.average_sale # None
       /\ last'.op = "sales_trends"
            => \A row \in last'.resp.body.category_performance :
                 row.total_revenue # None
       /\ last'.op = "admin_dashboard"
            => last'.resp.body.total_revenue \in Nat]_vars
AnalyticsOps ==
  {"seller_dashboard", "sales_report", "product_analytics", "admin_dashboard",
   "sales_trends"}

\* C22: each of the five analytics operations, answered with data or
\* refused, leaves every user, category, product, image, sale and email-log
\* record as it was (and sends no mail).
C22_AnalyticsReadOnly ==
  [][last'.op \in AnalyticsOps =>
       /\ users' = users
       /\ categories' = categories
       /\ products' = products
       /\ images' = images
       /\ sales' = sales
       /\ emailLog' = emailLog
       /\ mailDelivered' = mailDelivered
       /\ mailFailures' = mailFailures]_vars

\* A seller dashboard was answered with data over a recorded sale, and a
\* sales_trends call by a seller has just been refused.
C22_Witness ==
  /\ last.op = "sales_trends"
  /\ last.resp.status = 403
  /\ sales # <<>>
  /\ \E entry \in cache :
       /\ entry.key = CacheKey("seller_dashboard", 0)
       /\ entry.body.sales_summary.total_sales = 1
\* C23: an update_product request (PUT or PATCH) by an authenticated actor
\* who is neither the product's seller nor staff is refused, with the
\* permission error whenever the actor's lookup finds the product, changes no
\* product and sends no notification; and every update under way belongs to
\* the product's seller or to a staff user.
C23_OnlyOwnerUpdates ==
  [][/\ \A w \in Workers, actor \in 1..Len(users), pid \in 1..Len(products) :
          (/\ products[pid] # NoProduct
           /\ products[pid].seller # actor
           /\ ~users[actor].is_staff
           /\ UpdateReadBy(w, actor, pid))
            => /\ last'.op = "update_product"
               /\ last'.resp.status \in {403, 404}
               /\ Visible(actor, pid, products) => last'.resp.status = 403
               /\ products' = products
               /\ workers' = workers
               /\ emailLog' = emailLog
               /\ mailDelivered' = mailDelivered
               /\ mailFailures' = mailFailures
     /\ \A w \in Workers :
          workers'[w].op = "update_product"
            => \/ products'[workers'[w].pid].seller = workers'[w].actor
               \/ users'[workers'[w].actor].is_staff]_vars

\* The last request of the run, an update of the owner's active product low
\* in stock, has just been refused with 403: its actor is the other seller.
C23_Witness ==
  /\ last.op = "update_product"
  /\ last.resp.status = 403
  /\ products[1].stock_quantity <= LowStockThreshold
  /\ products[1].is_active
  /\ Idle
  /\ served = MaxRequests
\* C24: a create_product request by an authenticated actor whose role is not
\* SELLER creates nothing and is refused, with the permission error unless
\* its fields are refused first; a created product's seller is the calling
\* actor whatever seller the request named; and in every state every
\* product's seller has role SELLER.
C24_ProductSellerIsSeller ==
  [][/\ last'.op = "create_product" =>
          /\ (last'.req.actor # 0 /\ users[last'.req.actor].role # "SELLER")
               => /\ products' = products
                  /\ last'.resp.status \in {400, 403}
                  /\ last'.resp.status = 400 => last'.resp.errors # {}
          /\ last'.resp.status = 201
               => /\ Len(products') = Len(products) + 1
                  /\ products'[Len(products')].seller = last'.req.actor
          /\ last'.resp.status # 201 => products' = products
     /\ \A p \in 1..Len(products') :
          users'[products'[p].seller].role = "SELLER"]_vars

\* A seller has a product, and a create request naming that seller, made by
\* an actor who is no seller, has just been refused with the permission error.
C24_Witness ==
  /\ last.op = "create_product"
  /\ last.resp.status = 403
  /\ Len(products) = 1
  /\ users[products[1].seller].role = "SELLER"
  /\ last.req.seller = Some(products[1].seller)
\* The primary images of a product.
Primaries(table, pid) ==
  {i \in 1..Len(table) : table[i].product = pid /\ table[i].is_primary}

\* C25: after any image creates, image updates and upload_images calls each
\* product has at most one image with is_primary = true, and a create or an
\* update asking for is_primary = true while the product has another primary
\* image is rejected.
C25_OnePrimaryPerProduct ==
  [][/\ \A pid \in 1..Len(products') : Cardinality(Primaries(images', pid)) <= 1
     /\ (/\ last'.op = "create_image"
         /\ last'.req.is_primary = Some(TRUE)
         /\ last'.req.product # None
         /\ Primaries(images, last'.req.product[1]) # {})
          => last'.resp.status \in {400, 401, 403} /\ images' = images]_vars
\* C26: a ProductSale row, once created, is never mutated or deleted: every
\* step keeps every sale, with the same product, seller, quantity and
\* price_at_sale, whatever operation it is (the deletion of its product
\* included).
C26_SalesAreKept ==
  [][/\ Len(sales') >= Len(sales)
     /\ \A i \in 1..Len(sales) :
          /\ sales'[i].product = sales[i].product
          /\ sales'[i].seller = sales[i].seller
          /\ sales'[i].quantity = sales[i].quantity
          /\ sales'[i].price_at_sale = sales[i].price_at_sale]_vars

\* The same for the deletes of a product by its seller or by staff alone.
C26_OwnerDeleteKeepsSales ==
  [][(/\ last'.op = "delete_product"
      /\ last'.resp.status = 204
      /\ \/ products[last'.req.pid].seller = last'.req.actor
         \/ users[last'.req.actor].is_staff)
       => Len(sales') >= Len(sales)]_vars

\* C29: a delete request for a product by an authenticated actor who is
\* neither its seller nor staff is refused and leaves the product, its
\* images and its sales in place.
C29_OnlyOwnerDeletes ==
  [][(/\ last'.op = "delete_product"
      /\ last'.req.actor # 0
      /\ last'.req.pid \in 1..Len(products)
      /\ products[last'.req.pid] # NoProduct
      /\ products[last'.req.pid].seller # last'.req.actor
      /\ ~users[last'.req.actor].is_staff)
       => /\ last'.resp.status \in {403, 404}
          /\ products' = products
          /\ images' = images
          /\ sales' = sales]_vars
\* C27: a seller_dashboard response delivered to an actor is the dashboard of
\* that actor's own sales and products, whoever called seller_dashboard
\* before, and an actor whose role is not SELLER is refused and receives no
\* dashboard data.
C27_DashboardIsTheActors ==
  [][last'.op = "seller_dashboard" =>
       /\ last'.resp.status = 200
            => /\ users[last'.req.actor].role = "SELLER"
               /\ last'.resp.body = dashboard(last'.req.actor)
       /\ (last'.req.actor = 0 \/ users[last'.req.actor].role # "SELLER")
            => /\ last'.resp.status \in {401, 403}
               /\ last'.resp.body = NoBody]_vars

\* C28: a GET on the me endpoint returns the profile of the requesting user
\* as it is stored at that moment: never another user's, and with the values
\* of that user's latest profile update.
C28_MeIsTheRequester ==
  [][(last'.op = "me" /\ last'.req.actor # 0)
       => /\ last'.resp.status = 200
          /\ last'.resp.body.id = last'.req.actor
          /\ last'.resp.body = ProfileData(users', last'.req.actor)]_vars

\* Staleness alone: a GET on me after the same user's update within the
\* cache window.
C28_MeAfterOwnUpdate ==
  [][(last'.op = "me" /\ last'.req.actor # 0
        /\ last'.resp.body.id = last'.req.actor)
       => last'.resp.body = ProfileData(users', last'.req.actor)]_vars
\* The sum over the rows of quantity * price_at_sale.
Revenue(rows) == Total([i \in 1..Len(rows) |-> total_amount(rows[i])])

\* C30: the revenue reported by sales_report, admin_dashboard and a freshly
\* computed seller_dashboard equals the sum, over the sales reported on, of
\* quantity * price_at_sale (a missing sum read as zero).
C30_RevenueCountsQuantity ==
  [][last'.resp.status = 200 =>
       /\ last'.op = "sales_report"
            => OrZero(last'.resp.body.summary.total_revenue)
                 = Revenue(Window(last'.req.actor, last'.req.days))
       /\ last'.op = "admin_dashboard"
            => last'.resp.body.total_revenue = Revenue(sales)
       /\ (last'.op = "seller_dashboard"
             /\ Cached(CacheKey("seller_dashboard", 0)) = {})
            => OrZero(last'.resp.body.sales_summary.total_revenue)
                 = Revenue(SalesOf(last'.req.actor))]_vars
====
